---- MODULE Spec2Model ----
(***************************************************************************)
(* LogisFit service worker (static/sw.js): install / activate lifecycle,   *)
(* request classification, and the Cache-First / Network-First strategies  *)
(* over the platform's CacheStorage.                                       *)
(*                                                                         *)
(* Every `await` of the source is a step boundary: between two steps of    *)
(* one request any other request may run.  cache.put() is not awaited by   *)
(* the source, so the write it starts completes in a step of its own.      *)
(***************************************************************************)
EXTENDS Integers, Sequences, FiniteSets, Bags, TLC

\* ---------------------------------------------------------------- bounds
\* Number of fetch events that may be in flight at once.
MaxTasks == 2
\* Number of successive content versions the server publishes (1..MaxVer).
MaxVer == 2

\* ------------------------------------------------------ program constants
CACHE_NAME == "logisfit-v1"

PRECACHE_URLS ==
    << "/",
       "/static/css/style.css",
       "/static/js/main.js",
       "/static/images/logo.png",
       "/static/images/favicon.ico" >>

CDN_HOSTS == << "cdn.jsdelivr.net", "fonts.googleapis.com", "fonts.gstatic.com" >>

\* ------------------------------------------------------------ environment
\* Host the worker is served from; relative manifest paths resolve to it.
OriginHost == "logisfit.example"

\* Statuses the server answers with (one success, one failure).
ServerStatuses == {200, 404}

\* Generations left behind by earlier deployments.
StaleNames == {"logisfit-v0", "legacy-cache"}

\* The CACHE_NAME of the deployment that follows this one.
SuccessorName == "logisfit-v2"

\* ------------------------------------------------------------- strings
StartsWith(s, p) == Len(s) >= Len(p) /\ SubSeq(s, 1, Len(p)) = p

Includes(s, p) ==
    \E i \in 1..(Len(s) - Len(p) + 1) : SubSeq(s, i, i + Len(p) - 1) = p

Range(seq) == {seq[i] : i \in 1..Len(seq)}

\* ------------------------------------------------------------ requests
Req(m, h, p) == [method |-> m, host |-> h, path |-> p]

\* The requests a page of the application issues to its own server.
AppRequests ==
    { Req("POST", OriginHost, "/dashboard"),
      Req("GET", OriginHost, "/api/orders"),
      Req("GET", OriginHost, "/static/js/main.js"),
      Req("GET", OriginHost, "/dashboard") }

\* The asset requests of a page, a CDN file among them.
AssetTraffic ==
    { Req("GET", OriginHost, "/static/js/main.js"),
      Req("GET", "cdn.jsdelivr.net", "/npm/bootstrap.min.css") }

Requests == AppRequests \cup AssetTraffic

\* Requests of every shape the listener tells apart: both kinds of method,
\* hosts on and off the CDN list (one merely containing a listed name), and
\* paths at, under and beside the two prefixes.
ProbeMethods == {"GET", "POST"}

ProbeHosts ==
    { OriginHost, "cdn.jsdelivr.net", "fonts.gstatic.com",
      "cdn.jsdelivr.net.evil.example", "example.org" }

ProbePaths == {"/", "/dashboard", "/api/orders", "/api", "/static/app.js", "/static"}

ProbeRequests == {Req(m, h, p) : m \in ProbeMethods, h \in ProbeHosts, p \in ProbePaths}

\* request.url, the key a Cache files a GET request under.
Key(req) == req.host \o req.path

ManifestKeys == {OriginHost \o PRECACHE_URLS[i] : i \in 1..Len(PRECACHE_URLS)}

\* ----------------------------------------------------------- responses
Response(kind, status, url, ver, ctype) ==
    [kind |-> kind, status |-> status, url |-> url, ver |-> ver, contentType |-> ctype]

NoResponse == Response("none", 0, "", 0, "")

\* What the server sends for `url` while it publishes version `ver`; its
\* error pages do not depend on the published content.
LiveResponse(url, status, ver) ==
    Response("live", status, url, IF status = 200 THEN ver ELSE 0, "server")

\* A rejected fetch as the page sees it when nobody recovers from it.
NetworkError == Response("error", 0, "", 0, "")

\* Every response taken for a success.
OkAny(response) == TRUE

\* response.ok
Ok(response) == response.status >= 200 /\ response.status <= 299

\* new Response('', { status: 503 })
FailureResponse == Response("empty", 503, "", 0, "text/plain;charset=UTF-8")

\* new Response('<!DOCTYPE html>...', { headers: { 'Content-Type': ... } });
\* a Response built without a status has status 200.
OfflinePage == Response("offline-html", 200, "", 0, "text/html; charset=UTF-8")

\* ---------------------------------------------------------- CacheStorage
\* caches: the generations in creation order, each [name, entries] with
\* entries a function from the keys it holds to the stored responses.
EmptyEntries == [k \in {} |-> NoResponse]

CacheNames(cs) == {cs[i].name : i \in 1..Len(cs)}

IndexOf(cs, name) == CHOOSE i \in 1..Len(cs) : cs[i].name = name

EntriesOf(cs, name) ==
    IF name \in CacheNames(cs) THEN cs[IndexOf(cs, name)].entries ELSE EmptyEntries

\* caches.open(name): the generation is created, last in order, when absent.
Open(cs, name) ==
    IF name \in CacheNames(cs)
    THEN cs
    ELSE Append(cs, [name |-> name, entries |-> EmptyEntries])

\* A write that keeps the entry a key already has.
PutAllKeepExisting(cs, name, batch) ==
    IF name \in CacheNames(cs)
    THEN [cs EXCEPT ![IndexOf(cs, name)].entries = @ @@ batch]
    ELSE cs

\* The batch a completed cache.put / cache.addAll applies through a handle
\* on generation `name`: every key of `batch` is added or overwritten.  A
\* handle on a generation that was deleted meanwhile writes nothing visible.
PutAll(cs, name, batch) ==
    IF name \in CacheNames(cs)
    THEN [cs EXCEPT ![IndexOf(cs, name)].entries = batch @@ @]
    ELSE cs

\* caches.delete(name)
Delete(cs, name) == SelectSeq(cs, LAMBDA c : c.name # name)

\* caches.match(request): the generations are searched in creation order
\* and the first entry filed under the request's key is the answer.
Match(cs, key) ==
    LET hits == {i \in 1..Len(cs) : key \in DOMAIN cs[i].entries}
    IN  IF hits = {}
        THEN NoResponse
        ELSE cs[CHOOSE i \in hits : \A j \in hits : i <= j].entries[key]

\* ------------------------------------------------------- classification
\* The fetch listener's dispatch, first match wins.
IsCdnHost(hostname) == \E i \in 1..Len(CDN_HOSTS) : Includes(hostname, CDN_HOSTS[i])

\* Classify without the /api/ exclusion.
ClassifyApiCached(req) ==
    IF req.method # "GET" THEN "non-cacheable"
    ELSE IF IsCdnHost(req.host) THEN "third-party-asset"
    ELSE IF StartsWith(req.path, "/static/") THEN "static-asset"
    ELSE "navigational"

\* Classify with the CDN test ahead of the /api/ exclusion.
ClassifyCdnFirst(req) ==
    IF req.method # "GET" THEN "non-cacheable"
    ELSE IF IsCdnHost(req.host) THEN "third-party-asset"
    ELSE IF StartsWith(req.path, "/api/") THEN "non-cacheable"
    ELSE IF StartsWith(req.path, "/static/") THEN "static-asset"
    ELSE "navigational"

Classify(req) ==
    IF req.method # "GET" THEN "non-cacheable"
    ELSE IF StartsWith(req.path, "/api/") THEN "non-cacheable"
    ELSE IF IsCdnHost(req.host) THEN "third-party-asset"
    ELSE IF StartsWith(req.path, "/static/") THEN "static-asset"
    ELSE "navigational"

\* The strategy the listener hands the request to; "none" when it returns
\* without event.respondWith and the browser performs the request itself.
Strategy(req) ==
    CASE Classify(req) = "non-cacheable" -> "none"
      [] Classify(req) \in {"third-party-asset", "static-asset"} -> "cacheFirst"
      [] OTHER -> "networkFirst"

\* ------------------------------------------------------------- state
VARIABLES
    caches,         \* CacheStorage of the origin
    lc,             \* lifecycle position of the worker
    skipWaiting,    \* self.skipWaiting() has been called
    claimed,        \* self.clients.claim() has been called
    toDelete,       \* caches.delete calls of the activate step still running
    warned,         \* console.warn of the install step has fired
    serverVer,      \* content version the server currently publishes
    tasks           \* the fetch events in flight, a bag of task records

vars == <<caches, lc, skipWaiting, claimed, toDelete, warned, serverVer, tasks>>

\* Worker state as the platform reports it.
WorkerState ==
    CASE lc \in {"install_event", "install_open", "install_addAll"} -> "installing"
      [] lc = "installed" -> "installed"
      [] lc \in {"activate_keys", "activate_delete"} -> "activating"
      [] lc = "activated" -> "activated"
      [] OTHER -> "redundant"

\* A fetch event as the platform hands it to the listener: nothing fetched,
\* nothing read, nothing delivered yet.
NewTask(req) ==
    [pc |-> "dispatch", req |-> req, class |-> "unclassified",
     live |-> NoResponse, cached |-> NoResponse,
     result |-> NoResponse, put |-> "none", net |-> 0, reads |-> 0, writes |-> 0]

Running == BagToSet(tasks)

\* The task `old` takes a step and becomes `new`.
Step(old, new) == tasks' = (tasks (-) SetToBag({old})) (+) SetToBag({new})

\* Generations an earlier deployment may have left, with what they hold.
StaleEntries ==
    { EmptyEntries,
      (OriginHost \o "/dashboard") :> LiveResponse(OriginHost \o "/dashboard", 200, 0) }

StaleCaches == [name : StaleNames, entries : StaleEntries]

InitialStores ==
    {<<>>}
    \cup {<<c>> : c \in StaleCaches}
    \cup {<<c, d>> : <<c, d>> \in {p \in StaleCaches \X StaleCaches : p[1].name # p[2].name}}

Init ==
    /\ caches \in InitialStores
    /\ lc = "install_event"
    /\ skipWaiting = FALSE
    /\ claimed = FALSE
    /\ toDelete = {}
    /\ warned = FALSE
    /\ serverVer = 1
    /\ tasks = EmptyBag

\* ------------------------------------------------------------ install
\* The install listener without event.waitUntil: the worker is installed
\* as soon as the listener returns.
InstallEventNoWait ==
    /\ lc = "install_event"
    /\ lc' = "installed"
    /\ skipWaiting' = TRUE
    /\ UNCHANGED <<caches, claimed, toDelete, warned, serverVer, tasks>>

\* install listener, synchronous part: caches.open is started and
\* self.skipWaiting() is called.
InstallEvent ==
    /\ lc = "install_event"
    /\ lc' = "install_open"
    /\ skipWaiting' = TRUE
    /\ UNCHANGED <<caches, claimed, toDelete, warned, serverVer, tasks>>

\* caches.open(CACHE_NAME) resolves; cache.addAll(PRECACHE_URLS) starts.
InstallOpen ==
    /\ lc = "install_open"
    /\ caches' = Open(caches, CACHE_NAME)
    /\ lc' = "install_addAll"
    /\ UNCHANGED <<skipWaiting, claimed, toDelete, warned, serverVer, tasks>>

\* cache.addAll: every URL is fetched; the batch is written only when every
\* response arrived with an ok status, otherwise addAll rejects and nothing
\* is written.
AddAllOk(fetchable) == fetchable = ManifestKeys

AddAllBatch(fetchable) ==
    IF AddAllOk(fetchable)
    THEN [k \in ManifestKeys |-> LiveResponse(k, 200, serverVer)]
    ELSE EmptyEntries

\* The promise without the .catch: a rejected addAll rejects it.
InstallSettledNoCatch(addAllOk) == IF addAllOk THEN "fulfilled" ELSE "rejected"

\* Outcome of the promise handed to event.waitUntil: the .catch turns a
\* rejected addAll into a warning and a fulfilled promise.
InstallSettled(addAllOk) == "fulfilled"

\* addAll settles, `fetchable` being the manifest resources the network
\* answers with an ok status.
InstallAddAll(fetchable) ==
    /\ lc = "install_addAll"
    /\ caches' = PutAll(caches, CACHE_NAME, AddAllBatch(fetchable))
    /\ warned' = ~AddAllOk(fetchable)
    /\ lc' = IF InstallSettled(AddAllOk(fetchable)) = "fulfilled"
             THEN "installed" ELSE "redundant"
    /\ UNCHANGED <<skipWaiting, claimed, toDelete, serverVer, tasks>>

\* ----------------------------------------------------------- activate
\* activate listener, synchronous part: caches.keys() is started and
\* self.clients.claim() is called.  The platform dispatches the event once
\* the worker is installed and need not wait (skipWaiting).
ActivateEvent ==
    /\ lc = "installed"
    /\ skipWaiting
    /\ lc' = "activate_keys"
    /\ claimed' = TRUE
    /\ UNCHANGED <<caches, skipWaiting, toDelete, warned, serverVer, tasks>>

\* No filter at all: every generation is deleted.
StaleOfAll(names) == names

\* The filter with its test inverted.
StaleOfInverted(names) == {n \in names : n = CACHE_NAME}

\* cacheNames.filter((name) => name !== CACHE_NAME)
StaleOf(names) == {n \in names : n # CACHE_NAME}

\* caches.keys() resolves; one caches.delete per stale name starts.
ActivateKeys ==
    /\ lc = "activate_keys"
    /\ toDelete' = StaleOf(CacheNames(caches))
    /\ lc' = "activate_delete"
    /\ UNCHANGED <<caches, skipWaiting, claimed, warned, serverVer, tasks>>

\* One of the running caches.delete calls completes.
ActivateDelete(name) ==
    /\ lc = "activate_delete"
    /\ name \in toDelete
    /\ caches' = Delete(caches, name)
    /\ toDelete' = toDelete \ {name}
    /\ UNCHANGED <<lc, skipWaiting, claimed, warned, serverVer, tasks>>

\* The activate listener without event.waitUntil: the worker becomes
\* activated while the deletions are still running.
ActivateDoneNoWait ==
    /\ lc = "activate_delete"
    /\ lc' = "activated"
    /\ UNCHANGED <<caches, skipWaiting, claimed, toDelete, warned, serverVer, tasks>>

\* Promise.all resolves: the waitUntil promise is settled and the worker
\* becomes activated.
ActivateDone ==
    /\ lc = "activate_delete"
    /\ toDelete = {}
    /\ lc' = "activated"
    /\ UNCHANGED <<caches, skipWaiting, claimed, toDelete, warned, serverVer, tasks>>

\* -------------------------------------------------------------- network
\* What one fetch(request) can settle with: a rejection, or the server's
\* answer at the version it publishes at that moment.
FetchOutcomes(req) ==
    {NetworkError} \cup {LiveResponse(Key(req), s, serverVer) : s \in ServerStatuses}

\* The server publishes new content.
ServerUpdate ==
    /\ serverVer < MaxVer
    /\ serverVer' = serverVer + 1
    /\ UNCHANGED <<caches, lc, skipWaiting, claimed, toDelete, warned, tasks>>

\* The next deployment of the worker, CACHE_NAME changed, runs its install
\* listener while this worker is still the one serving: its generation is
\* created and precached next to this worker's.
SuccessorInstall ==
    /\ lc = "activated"
    /\ SuccessorName \notin CacheNames(caches)
    /\ caches' = PutAll(Open(caches, SuccessorName), SuccessorName,
                        [k \in ManifestKeys |-> LiveResponse(k, 200, serverVer)])
    /\ UNCHANGED <<lc, skipWaiting, claimed, toDelete, warned, serverVer, tasks>>

\* ---------------------------------------------------------- fetch events
\* fetch listener: the synchronous dispatch.  Fetch events reach the worker
\* only once it is activated.
\* The dispatch that hands every cacheable request to cacheFirst.
DispatchAllCacheFirst(req) ==
    IF Strategy(req) = "none" THEN "passthrough" ELSE "cf_match"

Dispatch(req) ==
    CASE Strategy(req) = "none" -> "passthrough"
      [] Strategy(req) = "cacheFirst" -> "cf_match"
      [] Strategy(req) = "networkFirst" -> "nf_fetch"

FetchEvent(req) ==
    /\ lc = "activated"
    /\ BagCardinality(tasks) < MaxTasks
    /\ tasks' = tasks (+) SetToBag({[NewTask(req) EXCEPT !.class = Classify(req),
                                                          !.pc = Dispatch(req)]})
    /\ UNCHANGED <<caches, lc, skipWaiting, claimed, toDelete, warned, serverVer>>

\* The listener returned without respondWith: the browser performs the
\* request itself and hands the page whatever the network gives.
Passthrough(task, outcome) ==
    /\ task.pc = "passthrough"
    /\ outcome \in FetchOutcomes(task.req)
    /\ Step(task, [task EXCEPT !.net = @ + 1, !.result = outcome, !.pc = "done"])
    /\ UNCHANGED <<caches, lc, skipWaiting, claimed, toDelete, warned, serverVer>>

\* ------------------------------------------------------------ cacheFirst
\* const cached = await caches.match(request); if (cached) return cached;
\* The lookup followed by a fetch even on a hit.
CacheFirstLookupRevalidate(task, cached) ==
    [task EXCEPT !.cached = cached, !.reads = @ + 1, !.pc = "cf_fetch"]

CacheFirstLookup(task, cached) ==
    IF cached # NoResponse
    THEN [task EXCEPT !.cached = cached, !.reads = @ + 1, !.result = cached, !.pc = "done"]
    ELSE [task EXCEPT !.reads = @ + 1, !.pc = "cf_fetch"]

CFMatch(task) ==
    /\ task.pc = "cf_match"
    /\ Step(task, CacheFirstLookup(task, Match(caches, Key(task.req))))
    /\ UNCHANGED <<caches, lc, skipWaiting, claimed, toDelete, warned, serverVer>>

\* const response = await fetch(request); ... catch { return new Response('', 503) }
\* The fetch without the try/catch around it: a rejection reaches the page.
CacheFirstFetchedNoCatch(task, outcome) ==
    IF outcome = NetworkError
    THEN [task EXCEPT !.net = @ + 1, !.result = NetworkError, !.pc = "done"]
    ELSE IF Ok(outcome)
    THEN [task EXCEPT !.net = @ + 1, !.live = outcome, !.pc = "cf_open"]
    ELSE [task EXCEPT !.net = @ + 1, !.live = outcome, !.result = outcome, !.pc = "done"]

CacheFirstFetched(task, outcome) ==
    IF outcome = NetworkError
    THEN [task EXCEPT !.net = @ + 1, !.result = FailureResponse, !.pc = "done"]
    ELSE IF Ok(outcome)
    THEN [task EXCEPT !.net = @ + 1, !.live = outcome, !.pc = "cf_open"]
    ELSE [task EXCEPT !.net = @ + 1, !.live = outcome, !.result = outcome, !.pc = "done"]

CFFetch(task, outcome) ==
    /\ task.pc = "cf_fetch"
    /\ outcome \in FetchOutcomes(task.req)
    /\ Step(task, CacheFirstFetched(task, outcome))
    /\ UNCHANGED <<caches, lc, skipWaiting, claimed, toDelete, warned, serverVer>>

\* const cache = await caches.open(CACHE_NAME); cache.put(request, clone);
\* return response;  -- the put is started, not awaited.
\* The return without the cache.put.
StoredNotPut(task) ==
    [task EXCEPT !.result = task.live, !.pc = "done"]

Stored(task) ==
    [task EXCEPT !.put = "pending", !.writes = @ + 1, !.result = task.live, !.pc = "done"]

CFOpen(task) ==
    /\ task.pc = "cf_open"
    /\ caches' = Open(caches, CACHE_NAME)
    /\ Step(task, Stored(task))
    /\ UNCHANGED <<lc, skipWaiting, claimed, toDelete, warned, serverVer>>

\* ---------------------------------------------------------- networkFirst
\* const response = await fetch(request); a rejection enters the catch block.
\* The fetch whose non-ok answer is treated like a rejection.
NetworkFirstFetchedOkOnly(task, outcome) ==
    IF outcome = NetworkError \/ ~Ok(outcome)
    THEN [task EXCEPT !.net = @ + 1, !.pc = "nf_match"]
    ELSE [task EXCEPT !.net = @ + 1, !.live = outcome, !.pc = "nf_open"]

\* The fetch whose ok response is returned without being cached.
NetworkFirstFetchedNoStore(task, outcome) ==
    IF outcome = NetworkError
    THEN [task EXCEPT !.net = @ + 1, !.pc = "nf_match"]
    ELSE [task EXCEPT !.net = @ + 1, !.live = outcome, !.result = outcome, !.pc = "done"]

NetworkFirstFetched(task, outcome) ==
    IF outcome = NetworkError
    THEN [task EXCEPT !.net = @ + 1, !.pc = "nf_match"]
    ELSE IF Ok(outcome)
    THEN [task EXCEPT !.net = @ + 1, !.live = outcome, !.pc = "nf_open"]
    ELSE [task EXCEPT !.net = @ + 1, !.live = outcome, !.result = outcome, !.pc = "done"]

NFFetch(task, outcome) ==
    /\ task.pc = "nf_fetch"
    /\ outcome \in FetchOutcomes(task.req)
    /\ Step(task, NetworkFirstFetched(task, outcome))
    /\ UNCHANGED <<caches, lc, skipWaiting, claimed, toDelete, warned, serverVer>>

NFOpen(task) ==
    /\ task.pc = "nf_open"
    /\ caches' = Open(caches, CACHE_NAME)
    /\ Step(task, Stored(task))
    /\ UNCHANGED <<lc, skipWaiting, claimed, toDelete, warned, serverVer>>

\* catch { const cached = await caches.match(request);
\*         if (cached) return cached; return new Response(<offline page>) }
\* The fallback without the cache lookup's result: always the offline page.
NetworkFirstFallbackOfflineOnly(task, cached) ==
    [task EXCEPT !.reads = @ + 1, !.result = OfflinePage, !.pc = "done"]

NetworkFirstFallback(task, cached) ==
    IF cached # NoResponse
    THEN [task EXCEPT !.cached = cached, !.reads = @ + 1, !.result = cached, !.pc = "done"]
    ELSE [task EXCEPT !.reads = @ + 1, !.result = OfflinePage, !.pc = "done"]

NFMatch(task) ==
    /\ task.pc = "nf_match"
    /\ Step(task, NetworkFirstFallback(task, Match(caches, Key(task.req))))
    /\ UNCHANGED <<caches, lc, skipWaiting, claimed, toDelete, warned, serverVer>>

\* ------------------------------------------------- the store unavailable
\* cacheFirst's caches.open(CACHE_NAME) rejects: it is awaited inside the
\* try, so the catch answers with the empty 503.
CFOpenFails(task) ==
    /\ task.pc = "cf_open"
    /\ Step(task, [task EXCEPT !.result = FailureResponse, !.pc = "done"])
    /\ UNCHANGED <<caches, lc, skipWaiting, claimed, toDelete, warned, serverVer>>

\* networkFirst's caches.open(CACHE_NAME) rejects: it is awaited inside the
\* try, so the catch block runs its cache lookup.
NFOpenFails(task) ==
    /\ task.pc = "nf_open"
    /\ Step(task, [task EXCEPT !.pc = "nf_match"])
    /\ UNCHANGED <<caches, lc, skipWaiting, claimed, toDelete, warned, serverVer>>

\* A caches.match rejects: cacheFirst awaits it outside its try and
\* networkFirst inside its catch, so the strategy's promise rejects and the
\* page gets a network error.
MatchFails(task) ==
    /\ task.pc \in {"cf_match", "nf_match"}
    /\ Step(task, [task EXCEPT !.reads = @ + 1, !.result = NetworkError, !.pc = "done"])
    /\ UNCHANGED <<caches, lc, skipWaiting, claimed, toDelete, warned, serverVer>>

StoreFailures ==
    \/ \E task \in Running : CFOpenFails(task)
    \/ \E task \in Running : NFOpenFails(task)
    \/ \E task \in Running : MatchFails(task)

\* ------------------------------------------------------- the store write
\* The cache.put a strategy started completes: the clone is filed under the
\* request's key in the generation the handle was opened on.
PutCommit(task) ==
    /\ task.put = "pending"
    /\ caches' = PutAll(caches, CACHE_NAME, Key(task.req) :> task.live)
    /\ Step(task, [task EXCEPT !.put = "stored"])
    /\ UNCHANGED <<lc, skipWaiting, claimed, toDelete, warned, serverVer>>

\* The event is over: the response was delivered and no write of it is
\* running any more.
Retire(task) ==
    /\ task.pc = "done"
    /\ task.put # "pending"
    /\ tasks' = tasks (-) SetToBag({task})
    /\ UNCHANGED <<caches, lc, skipWaiting, claimed, toDelete, warned, serverVer>>

\* ------------------------------------------------------------------ spec
Lifecycle ==
    \/ InstallEvent
    \/ InstallOpen
    \/ \E fetchable \in SUBSET ManifestKeys : InstallAddAll(fetchable)
    \/ ActivateEvent
    \/ ActivateKeys
    \/ \E name \in toDelete : ActivateDelete(name)
    \/ ActivateDone

\* Events arriving, writes completing, events ending.
Events(traffic) ==
    \/ \E req \in traffic : FetchEvent(req)
    \/ \E task \in Running : PutCommit(task)
    \/ \E task \in Running : Retire(task)

PassThroughSteps ==
    \E task \in Running : \E outcome \in FetchOutcomes(task.req) : Passthrough(task, outcome)

CacheFirstSteps ==
    \/ \E task \in Running : CFMatch(task)
    \/ \E task \in Running : \E outcome \in FetchOutcomes(task.req) : CFFetch(task, outcome)
    \/ \E task \in Running : CFOpen(task)

NetworkFirstSteps ==
    \/ \E task \in Running : \E outcome \in FetchOutcomes(task.req) : NFFetch(task, outcome)
    \/ \E task \in Running : NFOpen(task)
    \/ \E task \in Running : NFMatch(task)

\* The worker under the application's own requests.
Next ==
    \/ Lifecycle
    \/ Events(AppRequests)
    \/ PassThroughSteps
    \/ CacheFirstSteps
    \/ NetworkFirstSteps
    \/ ServerUpdate

Spec == Init /\ [][Next]_vars

\* The worker under asset traffic alone, third-party files included.
NextAssets ==
    \/ Lifecycle
    \/ Events(AssetTraffic)
    \/ CacheFirstSteps
    \/ ServerUpdate

SpecAssets == Init /\ [][NextAssets]_vars

\* The worker while the deployment that follows it installs.
NextUpgrade ==
    \/ Next
    \/ SuccessorInstall

SpecUpgrade == Init /\ [][NextUpgrade]_vars

\* The worker with a Cache Storage whose operations may reject.
NextStoreFailure ==
    \/ Next
    \/ StoreFailures

SpecStoreFailure == Init /\ [][NextStoreFailure]_vars

\* The listener's dispatch alone, over requests of every shape.
NextClassify ==
    \/ Lifecycle
    \/ \E req \in ProbeRequests : FetchEvent(req)

SpecClassify == Init /\ [][NextClassify]_vars

\* ------------------------------------------------- reading the state
\* Entries of the current-version generation.
Current == EntriesOf(caches, CACHE_NAME)

\* Every response some generation holds under `key`.
Held(key) ==
    {caches[i].entries[key] : i \in {j \in 1..Len(caches) : key \in DOMAIN caches[j].entries}}

Delivered == {t \in Running : t.pc = "done"}

\* The record `task` has become in the step being looked at.
After(task) == CHOOSE n \in BagToSet(tasks' (-) (tasks (-) SetToBag({task}))) : TRUE

IsGet(req) == req.method = "GET"
UnderApi(req) == StartsWith(req.path, "/api/")
UnderStatic(req) == StartsWith(req.path, "/static/")
SameOrigin(req) == req.host = OriginHost

\* GET requests for the application's static files and for files of the
\* three CDN hosts, and GET requests for its pages.
AssetRequests ==
    {r \in Requests : IsGet(r) /\ ~UnderApi(r) /\
        ((SameOrigin(r) /\ UnderStatic(r)) \/ r.host \in Range(CDN_HOSTS))}

PageRequests ==
    {r \in Requests : IsGet(r) /\ ~UnderApi(r) /\ SameOrigin(r) /\ ~UnderStatic(r)}

\* The live fetch of a delivered request was rejected.
FetchRejected(t) == t.net = 1 /\ t.live = NoResponse

\* ------------------------------------------------------------------ C1
\* C1: a request that is not a GET, or whose path starts with /api/, is
\* passed through: the network is called exactly once for it (never more
\* while it is in flight) and no cache read or write is made on its behalf,
\* whatever other requests are in flight.
C1_PassThrough ==
    \A t \in Running :
        (~IsGet(t.req) \/ UnderApi(t.req)) =>
            /\ t.reads = 0
            /\ t.writes = 0
            /\ t.put = "none"
            /\ t.cached = NoResponse
            /\ t.net = (IF t.pc = "done" THEN 1 ELSE 0)

\* A GET under /api/ has been answered by the network while another request
\* has written the store.
C1_Witness ==
    /\ \E t \in Delivered : IsGet(t.req) /\ UnderApi(t.req) /\ t.result.status = 200
    /\ \E t \in Running : t.put = "stored"

\* ------------------------------------------------------------------ C2
\* C2: when the live fetch of a page request is rejected, the step that
\* answers it returns an entry held under the request's key if there is
\* one, and otherwise the offline page with status 200 and an HTML content
\* type; it never answers with an error.
C2_FallbackOrder ==
    [][\A task \in Running :
          (NFMatch(task) /\ task.req \in PageRequests) =>
              LET k == Key(task.req)
                  r == After(task).result
              IN  /\ After(task).pc = "done"
                  /\ r.kind # "error"
                  /\ Held(k) # {} => r \in Held(k)
                  /\ Held(k) = {} =>
                        /\ r.kind = "offline-html"
                        /\ r.status = 200
                        /\ StartsWith(r.contentType, "text/html")]_vars

\* Two page requests whose fetch was rejected have been answered, one from
\* the store and one with the offline page.
C2_Witness ==
    /\ \E t \in Delivered :
          t.req \in PageRequests /\ FetchRejected(t) /\ t.result.kind = "live"
    /\ \E t \in Delivered :
          t.req \in PageRequests /\ FetchRejected(t) /\ t.result = OfflinePage

\* ------------------------------------------------------------------ C3
Missed(t) == t.reads = 1 /\ t.cached = NoResponse
Hit(t) == t.reads = 1 /\ t.cached # NoResponse
FetchedOk(t) == t.net = 1 /\ t.live # NoResponse /\ t.live.status \in 200..299
FetchedNotOk(t) == t.net = 1 /\ t.live # NoResponse /\ t.live.status \notin 200..299

\* C3 as stated: once the live response of a page request has been returned,
\* the entry under its key matches it, so that a read of the store -- what
\* a request made with the network down gets -- gives the same content.
C3_Original ==
    \A t \in Delivered :
        (t.req \in PageRequests /\ FetchedOk(t)) =>
            /\ t.result = t.live
            /\ Held(Key(t.req)) = {t.live}

\* C3 (amended): a page request whose live fetch succeeds is answered with
\* the live response and a store write of it is started, not awaited; when
\* that write completes the entry under the key equals the live response;
\* and a request for the key made with the network down is answered with
\* the entry the current generation holds at that time.
C3_Freshness ==
    /\ [](\A t \in Delivered :
            (t.req \in PageRequests /\ FetchedOk(t)) =>
                /\ t.result = t.live
                /\ t.writes = 1
                /\ t.put \in {"pending", "stored"})
    /\ [][\A task \in Running :
            /\ (PutCommit(task) /\ task.req \in PageRequests) =>
                  /\ Key(task.req) \in DOMAIN Current'
                  /\ Current'[Key(task.req)] = task.live
            /\ (NFMatch(task) /\ Key(task.req) \in DOMAIN Current) =>
                  After(task).result = Current[Key(task.req)]]_vars

\* The write of a live page has completed and a later request for the same
\* page, its fetch rejected, has been answered with that content.
C3_Witness ==
    \E t, u \in Delivered :
        /\ t.req \in PageRequests /\ FetchedOk(t) /\ t.put = "stored"
        /\ u.req = t.req /\ FetchRejected(u) /\ u.result = t.live

\* ------------------------------------------------------------------ C4
\* C4 as stated: an asset request that missed the cache and whose live
\* fetch failed -- rejected, or answered with a non-success status -- is
\* answered with the empty 503 response.
C4_Original ==
    \A t \in Delivered :
        (t.req \in AssetRequests /\ Missed(t) /\ (FetchRejected(t) \/ FetchedNotOk(t))) =>
            /\ t.result.status = 503
            /\ t.result.kind = "empty"

\* C4 (amended): an asset request that missed the cache is answered with
\* the empty 503 response when its live fetch is rejected; when the fetch
\* is answered with a non-success status that live response is returned
\* unchanged and nothing is stored; in neither case does an error reach
\* the caller.
C4_Failure ==
    \A t \in Delivered :
        (t.req \in AssetRequests /\ Missed(t)) =>
            /\ t.result.kind # "error"
            /\ FetchRejected(t) =>
                  /\ t.result.status = 503
                  /\ t.result.kind = "empty"
                  /\ t.put = "none"
            /\ FetchedNotOk(t) =>
                  /\ t.result = t.live
                  /\ t.writes = 0
                  /\ t.put = "none"

\* One asset request has been answered with the 503 response and another
\* with the server's own 404.
C4_Witness ==
    /\ \E t \in Delivered :
          t.req \in AssetRequests /\ Missed(t) /\ FetchRejected(t) /\ t.result.status = 503
    /\ \E t \in Delivered :
          t.req \in AssetRequests /\ Missed(t) /\ FetchedNotOk(t) /\ t.result.status = 404

\* ------------------------------------------------------------------ C5
StaticRequests == {r \in AssetRequests : SameOrigin(r)}

\* C5 as stated: once a static request that missed has been served from
\* the network with success, the store holds an entry under its key, so
\* that any call made from then on is answered from the store.
C5_Original ==
    \A t \in Delivered :
        (t.req \in StaticRequests /\ Missed(t) /\ FetchedOk(t)) =>
            Key(t.req) \in DOMAIN Current

\* C5 (amended): a static request that missed and is served from the
\* network with success is answered with the live response and starts a
\* store write under its key that it does not await; once that write has
\* completed the key is in the current generation and stays there, and
\* every call for a key the current generation holds is answered from the
\* store without any network call.
C5_Population ==
    /\ [](\A t \in Delivered :
            (t.req \in StaticRequests /\ Missed(t) /\ FetchedOk(t)) =>
                /\ t.result = t.live
                /\ t.put \in {"pending", "stored"}
                /\ t.put = "stored" => Key(t.req) \in DOMAIN Current)
    /\ [][/\ DOMAIN Current \subseteq DOMAIN Current'
          /\ \A task \in Running :
                (CFMatch(task) /\ task.req \in StaticRequests
                    /\ Key(task.req) \in DOMAIN Current) =>
                      /\ After(task).pc = "done"
                      /\ After(task).net = 0
                      /\ After(task).result \in Held(Key(task.req))]_vars

\* The precache had failed; a static request populated the store and a
\* later call for the same key was answered from it, the network unused.
C5_Witness ==
    /\ warned
    /\ \E t, u \in Delivered :
          /\ t.req \in StaticRequests /\ Missed(t) /\ FetchedOk(t) /\ t.put = "stored"
          /\ u.req = t.req /\ Hit(u) /\ u.net = 0 /\ u.result = t.live

\* ------------------------------------------------------------------ C6
\* C6 as stated: calls for a static key answered from the store all return
\* the same response, without a network call.
C6_Original ==
    \A t, u \in Delivered :
        (t.req \in StaticRequests /\ u.req = t.req /\ Hit(t) /\ Hit(u)) =>
            /\ t.result = u.result
            /\ t.net = 0

\* C6 (amended): a call for a static key the current generation holds makes
\* no network call and returns exactly the entry stored at that moment; the
\* entry stored under an asset key changes only when a store write
\* completes that was started by a request whose own lookup had missed.
C6_Idempotence ==
    /\ [](\A t \in Delivered :
            (t.req \in StaticRequests /\ Hit(t)) =>
                /\ t.net = 0
                /\ t.writes = 0
                /\ t.result = t.cached
                /\ t.result.url = Key(t.req))
    /\ [][/\ \A task \in Running :
                (CFMatch(task) /\ task.req \in StaticRequests
                    /\ Key(task.req) \in DOMAIN Current) =>
                      /\ After(task).pc = "done"
                      /\ After(task).result = Current[Key(task.req)]
          /\ \A r \in AssetRequests :
                (Key(r) \in DOMAIN Current /\ Current'[Key(r)] # Current[Key(r)]) =>
                    \E task \in Running :
                        PutCommit(task) /\ task.req = r /\ Missed(task)]_vars

\* Two calls for a stored static key have returned the same stored response.
C6_Witness ==
    \E t \in Delivered :
        t.req \in StaticRequests /\ Hit(t) /\ t.net = 0 /\ CopiesIn(t, tasks) = 2

\* ------------------------------------------------------------------ C7
\* C7: when the precache step of install settles, the current generation
\* holds every manifest resource that was fetchable, whatever the others
\* did, and exactly the manifest when all of them were fetchable; nothing
\* removes these entries afterwards.
C7_PrecacheComplete ==
    [][/\ \A fetchable \in SUBSET ManifestKeys :
              InstallAddAll(fetchable) =>
                  /\ fetchable \subseteq DOMAIN Current'
                  /\ fetchable = ManifestKeys => DOMAIN Current' = ManifestKeys
      /\ DOMAIN Current \subseteq DOMAIN Current']_vars

\* ------------------------------------------------------------------ C8
\* C8: once the activate step has completed, the store holds no generation
\* named otherwise than the current version, whatever generations existed
\* before; while the step runs, every other generation still present has
\* its deletion under way.
C8_StalePurged ==
    /\ lc = "activated" => CacheNames(caches) \subseteq {CACHE_NAME}
    /\ lc = "activate_delete" => (CacheNames(caches) \ {CACHE_NAME}) \subseteq toDelete

\* Activation has completed, the current generation alone is left and
\* requests have been writing to it.
C8_Witness ==
    /\ lc = "activated"
    /\ CacheNames(caches) = {CACHE_NAME}
    /\ \E t \in Running : t.put = "stored"

\* ------------------------------------------------------------------ C9
\* C9: every entry of the current generation, whether written by the
\* precache, by cacheFirst or by networkFirst, is a copy of a server
\* response with a success status.
C9_OnlySuccessStored ==
    \A k \in DOMAIN Current :
        /\ Current[k].status \in 200..299
        /\ Current[k].kind = "live"
        /\ Current[k].url = k

\* The precache and a page request have written the store, and a later 404
\* answer for the same page has been returned without replacing the entry.
C9_Witness ==
    /\ ~warned
    /\ ManifestKeys \subseteq DOMAIN Current
    /\ \E t, u \in Delivered :
          /\ t.req \in PageRequests /\ t.put = "stored"
          /\ u.req = t.req /\ FetchedNotOk(u) /\ u.result.status = 404
          /\ Current[Key(t.req)] = t.live

\* ----------------------------------------------------------------- C10
\* C10: whatever subset of the manifest is fetchable, the install step
\* settles with the worker installed: a failed precache never makes the
\* worker redundant, and install never comes to a halt before that.
C10_InstallCompletes ==
    /\ [](/\ WorkerState # "redundant"
          /\ WorkerState = "installing" => ENABLED Lifecycle)
    /\ [][\A fetchable \in SUBSET ManifestKeys :
              InstallAddAll(fetchable) => lc' = "installed"]_vars

\* The precache failed, the failure was logged, and the worker is installed.
C10_Witness == warned /\ lc = "installed" /\ DOMAIN Current = {}

\* ----------------------------------------------------------------- C11
Categories == {"non-cacheable", "third-party-asset", "static-asset", "navigational"}

\* The listener's host test: the hostname contains a listed name.
MatchesCdnList(req) == \E h \in Range(CDN_HOSTS) : Includes(req.host, h)

\* C11: every request gets exactly one of the four categories, decided by
\* the method first, then the /api/ prefix, then the host list, then the
\* /static/ prefix, else navigational; the strategy follows the category;
\* POST /api/orders and GET /api/orders are non-cacheable, GET
\* /static/app.js is static-asset, GET /dashboard is navigational and a GET
\* to a listed host under /api/ is non-cacheable.
C11_FirstMatch ==
    \A t \in Running :
        LET r == t.req
            passed == ~IsGet(r) \/ UnderApi(r)
        IN  /\ t.class \in Categories
            /\ t.class = "non-cacheable" <=> passed
            /\ t.class = "third-party-asset" <=> (~passed /\ MatchesCdnList(r))
            /\ t.class = "static-asset" <=> (~passed /\ ~MatchesCdnList(r) /\ UnderStatic(r))
            /\ t.class = "navigational" <=> (~passed /\ ~MatchesCdnList(r) /\ ~UnderStatic(r))
            /\ t.pc = (CASE t.class = "non-cacheable" -> "passthrough"
                        [] t.class = "navigational" -> "nf_fetch"
                        [] OTHER -> "cf_match")
            /\ r = Req("POST", OriginHost, "/api/orders") => t.class = "non-cacheable"
            /\ r = Req("GET", OriginHost, "/api/orders") => t.class = "non-cacheable"
            /\ r = Req("GET", OriginHost, "/static/app.js") => t.class = "static-asset"
            /\ r = Req("GET", OriginHost, "/dashboard") => t.class = "navigational"
            /\ r = Req("GET", "cdn.jsdelivr.net", "/api/orders") => t.class = "non-cacheable"

\* A GET to a listed host under /api/ has been passed through while a GET
\* to the same host for a static path went to cacheFirst.
C11_Witness ==
    /\ \E t \in Running :
          t.req = Req("GET", "cdn.jsdelivr.net", "/api/orders") /\ t.pc = "passthrough"
    /\ \E t \in Running :
          t.req = Req("GET", "cdn.jsdelivr.net", "/static/app.js")
          /\ t.class = "third-party-asset"

\* ----------------------------------------------------------------- C12
\* C12: a request classified third-party-asset has a hostname that is one
\* of the names of CDN_HOSTS.
C12_AllowlistMembership ==
    \A t \in Running :
        t.class = "third-party-asset" => t.req.host \in Range(CDN_HOSTS)

\* ----------------------------------------------------------------- C13
\* C13: a response a strategy takes from the cache (cacheFirst's lookup,
\* networkFirst's fallback) is the entry the current generation holds for
\* the request's key, also while another generation exists.
C13_ActiveGenerationOnly ==
    [][\A task \in Running :
          (CFMatch(task) \/ NFMatch(task)) /\ After(task).cached # NoResponse
          => /\ Key(task.req) \in DOMAIN Current
             /\ After(task).cached = Current[Key(task.req)]]_vars

\* ----------------------------------------------------------------- C14
\* No generation other than the current one exists.
StaleGone == CacheNames(caches) \subseteq {CACHE_NAME}

\* C14 as stated: the clients are claimed only after every stale generation
\* has been deleted, and no request is served while one exists.
C14_Original ==
    /\ claimed => StaleGone
    /\ tasks # EmptyBag => StaleGone

\* C14: clients.claim() is called with the activate event itself, before
\* the deletions; the worker is activated, and requests are handled, only
\* once every stale generation has been deleted.
C14_ActivationOrdering ==
    /\ claimed <=> WorkerState \in {"activating", "activated"}
    /\ WorkerState = "activated" => StaleGone /\ toDelete = {}
    /\ tasks # EmptyBag => WorkerState = "activated" /\ StaleGone

\* The clients are claimed while deletions of stale generations are still
\* running.
C14_Witness ==
    /\ claimed
    /\ lc = "activate_delete"
    /\ toDelete # {}
    /\ ~StaleGone

\* ----------------------------------------------------------------- C15
LifecycleOrder ==
    { <<"installing", "installed">>, <<"installed", "activating">>,
      <<"activating", "activated">> }

\* The install-time precache attempt is over: addAll has stored the whole
\* manifest or its failure has been logged.
PrecacheSettled == warned \/ ManifestKeys \subseteq DOMAIN Current

\* C15: the worker goes installing, installed, activating, activated, one
\* state after the other, none skipped or entered again; skipWaiting,
\* called during install, starts no activation and lets no request be
\* handled before the precache attempt is over.
C15_LifecycleOrder ==
    /\ [][WorkerState' # WorkerState
            => <<WorkerState, WorkerState'>> \in LifecycleOrder]_vars
    /\ [](WorkerState \in {"installing", "installed", "activating", "activated"})
    /\ [](WorkerState # "installing" => PrecacheSettled)
    /\ [](WorkerState = "installing" => ~claimed /\ tasks = EmptyBag)
    /\ [](tasks # EmptyBag => WorkerState = "activated" /\ PrecacheSettled)

\* skipWaiting was called while the precache was still running, and the
\* worker is now activated and handling a request after a precache that
\* failed.
C15_Witness ==
    /\ skipWaiting
    /\ warned
    /\ WorkerState = "activated"
    /\ tasks # EmptyBag

\* ----------------------------------------------------------------- C16
\* C16: whatever a request has done so far was done in its strategy's
\* order.  A page request has read the cache only after its live fetch was
\* rejected and is answered with the offline page only after that read
\* missed; an asset request has called the network only after its cache
\* read missed and has started a store write only after its fetch came
\* back with a success status.
C16_StepOrder ==
    \A t \in Running :
        /\ t.class = "navigational" =>
              /\ t.reads \in {0, 1} /\ t.net \in {0, 1}
              /\ t.reads = 1 => FetchRejected(t)
              /\ t.cached # NoResponse => t.reads = 1
              /\ t.result = OfflinePage => Missed(t) /\ FetchRejected(t)
              /\ t.writes > 0 => FetchedOk(t) /\ t.reads = 0
        /\ t.class \in {"static-asset", "third-party-asset"} =>
              /\ t.reads \in {0, 1} /\ t.net \in {0, 1}
              /\ t.net = 1 => Missed(t)
              /\ t.live # NoResponse => t.net = 1
              /\ t.writes > 0 => t.writes = 1 /\ FetchedOk(t) /\ Missed(t)
              /\ t.put # "none" => t.writes = 1

\* A page request went fetch, lookup, offline page and an asset request
\* went lookup, fetch, store write.
C16_Witness ==
    /\ \E t \in Delivered :
          t.class = "navigational" /\ FetchRejected(t) /\ Missed(t)
          /\ t.result = OfflinePage
    /\ \E t \in Delivered :
          t.class = "static-asset" /\ Missed(t) /\ FetchedOk(t) /\ t.put = "stored"

\* ----------------------------------------------------------------- C17
\* C17: a request whose live fetch came back with a success status is
\* answered with that live response, whatever becomes of the Cache Store
\* operations made on its behalf: none of them, by failing, replaces the
\* response delivered.
C17_FireAndForget ==
    \A t \in Delivered :
        (t.class # "non-cacheable" /\ FetchedOk(t)) => t.result = t.live

\* ----------------------------------------------------------------- C18
\* C18 as stated: a completing store write leaves exactly the writer's
\* response under the key, and that response is the same as or fresher
\* than the entry it replaces.
C18_Original ==
    [][\A task \in Running :
          PutCommit(task) =>
              LET k == Key(task.req)
              IN  /\ Current'[k] = task.live
                  /\ k \in DOMAIN Current => Current'[k].ver >= Current[k].ver]_vars

\* C18 (amended): a completing store write replaces the entry under its
\* key, whole, by the writer's response and touches no other entry, so
\* the entry finally held is the response of the last write to complete;
\* entries change in no other way once the worker is installed.
C18_LastWriterWins ==
    [][/\ \A task \in Running :
             PutCommit(task) =>
                 Current' = (Key(task.req) :> task.live) @@ Current
       /\ (WorkerState # "installing" /\ Current' # Current) =>
             \E task \in Running : PutCommit(task)]_vars

\* Two requests for the same key overlapped, both writes have completed,
\* and the entry left is the older of the two responses.
C18_Witness ==
    \E t, u \in Running :
        /\ t.req = u.req
        /\ t.put = "stored" /\ u.put = "stored"
        /\ t.live.ver < u.live.ver
        /\ Current[Key(t.req)] = t.live

\* ----------------------------------------------------------------- C19
\* C19: no step deletes the current generation or an entry of it, so its
\* key set only grows; and a step of request handling changes no
\* generation but the current one and creates none.
C19_AdditiveOnly ==
    [][/\ CACHE_NAME \in CacheNames(caches) => CACHE_NAME \in CacheNames(caches')
       /\ DOMAIN Current \subseteq DOMAIN Current'
       /\ tasks' # tasks =>
             /\ CacheNames(caches') \subseteq CacheNames(caches) \cup {CACHE_NAME}
             /\ \A n \in CacheNames(caches) \ {CACHE_NAME} :
                   /\ n \in CacheNames(caches')
                   /\ EntriesOf(caches', n) = EntriesOf(caches, n)]_vars

\* Next to the generation of the following deployment, the current
\* generation holds the manifest and a page stored by request handling.
C19_Witness ==
    /\ SuccessorName \in CacheNames(caches)
    /\ ManifestKeys \subseteq DOMAIN Current
    /\ \E t \in Running :
          /\ t.class = "navigational" /\ t.put = "stored"
          /\ Key(t.req) \notin ManifestKeys
          /\ Key(t.req) \in DOMAIN Current

\* ----------------------------------------------------------------- C20
\* C20: a page request whose live fetch resolves with a non-success status
\* is answered with that live response unchanged, in the very step the
\* fetch resolves, with the Cache Store left as it was: no read and no
\* write is made for it, and an entry held under its key is neither
\* returned nor overwritten.
C20_NonSuccessAsIs ==
    /\ [](\A t \in Running :
            (t.class = "navigational" /\ FetchedNotOk(t)) =>
                /\ t.pc = "done"
                /\ t.result = t.live
                /\ t.result.status \notin 200..299
                /\ t.reads = 0 /\ t.cached = NoResponse
                /\ t.writes = 0 /\ t.put = "none")
    /\ [][\A task \in Running : \A outcome \in FetchOutcomes(task.req) :
            (NFFetch(task, outcome) /\ outcome # NetworkError
                /\ outcome.status \notin 200..299) =>
                  /\ caches' = caches
                  /\ After(task).result = outcome]_vars

\* A page was stored by one request; a later request for it got the
\* server's 404, which was delivered while the stored page stayed in place.
C20_Witness ==
    \E t, u \in Delivered :
        /\ t.class = "navigational" /\ FetchedOk(t) /\ t.put = "stored"
        /\ u.req = t.req /\ FetchedNotOk(u) /\ u.result = u.live
        /\ u.reads = 0 /\ u.put = "none"
        /\ Current[Key(t.req)] = t.live

====
